---- MODULE Spec2Model ----
(***************************************************************************)
(* Incremental synchronization of a codebase into an Azure AI Search       *)
(* index.  The vector-store adapter (insert, delete, dropCollection,       *)
(* hasCollection, createCollection, prepareCollection) is translated from  *)
(* packages/core/src/vectordb/azureaisearch-vectordb.ts.  The Diff Engine, *)
(* the Reconciliation Pipeline, the Sync Orchestrator, the per-identity    *)
(* lock and clearIndex live in ./sync/synchronizer, ./snapshot.js,         *)
(* ./sync.js and ./handlers.js, which are imported by the sources but not  *)
(* part of them; they are modelled from the specification (sections 3-7).  *)
(***************************************************************************)
EXTENDS Integers, Sequences, FiniteSets, TLC

(* ------------------------------ bounds -------------------------------- *)

\* number of sync requests (run handles) a behaviour may issue
MaxRuns == 2

\* number of events of the environment a behaviour may contain: filesystem
\* edits, cancellations or crashes, and failures of the store, the chunker
\* or the embedder
MaxEvents == 2

\* AzureAISearchConfig.batchSize the adapter is constructed with (0 = unset)
ConfigBatchSize == 1

(* -------------------------- program constants -------------------------- *)

\* `this.config.batchSize || 100`
DefaultBatchSize == 100

\* AzureAISearchConfig.maxRetries, "(default: 3)"
DefaultMaxRetries == 3

(* ------------------------------ universe ------------------------------ *)

Paths == {"a", "b", "c"}

\* the deterministic directory traversal order of one scan
PathOrder == <<"a", "b", "c">>

Contents == {1, 2}

RunIds == 1..MaxRuns

\* the index bound to the codebase identity
BoundIndex == "code-hybrid-0a1b2c3d"

Range(s) == {s[i] : i \in DOMAIN s}

Min(x, y) == IF x < y THEN x ELSE y

Put(m, k, v) == [q \in DOMAIN m \cup {k} |-> IF q = k THEN v ELSE m[q]]

Del(m, ks) == [q \in DOMAIN m \ ks |-> m[q]]

Restrict(m, ks) == [q \in DOMAIN m \cap ks |-> m[q]]

EmptyMap == [q \in {} |-> 0]

(* ------------------------------- strings ------------------------------- *)

\* a string is a sequence of one-character strings
LowerLetters == <<"a", "b", "c", "d", "e", "f", "g", "h", "i", "j", "k", "l", "m",
                  "n", "o", "p", "q", "r", "s", "t", "u", "v", "w", "x", "y", "z">>

UpperLetters == <<"A", "B", "C", "D", "E", "F", "G", "H", "I", "J", "K", "L", "M",
                  "N", "O", "P", "Q", "R", "S", "T", "U", "V", "W", "X", "Y", "Z">>

Digits == <<"0", "1", "2", "3", "4", "5", "6", "7", "8", "9">>

IndexOf(s, x) == CHOOSE i \in DOMAIN s : s[i] = x

Repeat(ch, n) == [i \in 1..n |-> ch]

\* String.prototype.toLowerCase
toLowerCase(s) ==
    [i \in DOMAIN s |-> IF s[i] \in Range(UpperLetters)
                        THEN LowerLetters[IndexOf(UpperLetters, s[i])] ELSE s[i]]

\* String.prototype.substring(from, to), 0 <= from <= to
substring(s, from, to) == SubSeq(s, Min(from, Len(s)) + 1, Min(to, Len(s)))

\* .replace(/[^a-z0-9-]/g, '-')
replaceInvalid(s) ==
    [i \in DOMAIN s |-> IF s[i] \in Range(LowerLetters) \cup Range(Digits) \cup {"-"}
                        THEN s[i] ELSE "-"]

\* .replace(/--+/g, '-'): every run of dashes becomes one dash
collapseDashes(s) ==
    LET withPrev == [i \in DOMAIN s |-> <<s[i], IF i > 1 THEN s[i - 1] ELSE "">>]
        IsKept(pair) == ~(pair[1] = "-" /\ pair[2] = "-")
        kept == SelectSeq(withPrev, IsKept)
    IN  [i \in DOMAIN kept |-> kept[i][1]]

\* .replace(/-$/, '')
trimTrailingDash(s) ==
    IF Len(s) > 0 /\ s[Len(s)] = "-" THEN SubSeq(s, 1, Len(s) - 1) ELSE s

\* .replace(/^-|-$/g, ''): one leading and one trailing dash are removed
trimDashes(s) ==
    trimTrailingDash(IF Len(s) > 0 /\ s[1] = "-" THEN Tail(s) ELSE s)

(* --------------------------- external parts ---------------------------- *)

\* content hash of a file body (strong: one hash per body)
Hash(c) == c

\* byte size of a file body
Size(c) == 10 * c

\* the chunker: how many chunks a file body yields ("c" is an unsupported
\* file: it yields none)
NChunks(p, c) == IF p = "c" THEN 0 ELSE IF c = 1 THEN 2 ELSE 1

\* deterministic chunk ids from (path, ordinal)
ChunkIdsOf(p, c) == [i \in 1..NChunks(p, c) |-> <<p, i - 1>>]

\* FileFingerprint of a file on disk
Fingerprint(f) == [hash |-> Hash(f.content), size |-> Size(f.content), mtime |-> f.mtime]

\* Fingerprint Scanner: path -> fingerprint of every regular file
ScanFs(files) == [p \in DOMAIN files |-> Fingerprint(files[p])]

(* ------------------- AzureAISearchVectorDatabase ----------------------- *)

\* AzureAISearchConfig.batchSize of the adapter (0 = unset)
VARIABLE configBatchSize

batchSize == IF configBatchSize = 0 THEN DefaultBatchSize ELSE configBatchSize

\* .substring(0, 128): "Max length is 128 characters"
MaxIndexNameLength == 128

\* topK of search when the options give none
DefaultTopK == 10

\* limit of hybridSearch when the options give none
DefaultLimit == 10

\* "Azure AI Search free tier limit"
MAX_COLLECTIONS == 50

\* normalizeIndexName(collectionName)
normalizeIndexName(collectionName) ==
    substring(trimDashes(collapseDashes(replaceInvalid(toLowerCase(collectionName)))),
              0, MaxIndexNameLength)

\* getSearchClient: the client of an index is created once and cached
getSearchClient(clients, indexName) == clients \cup {indexName}

\* uploadDocuments of one batch: every document the service does not
\* report as failed is merged or uploaded under its id, in batch order
RECURSIVE uploadDocuments(_, _, _)
uploadDocuments(d, batch, rejected) ==
    IF Len(batch) = 0 THEN d
    ELSE LET doc == Head(batch)
             d1 == IF doc.id \in rejected THEN d ELSE Put(d, doc.id, doc.content)
         IN  uploadDocuments(d1, Tail(batch), rejected)

\* variant: a trailing batch that is not full is not uploaded
RECURSIVE insertBatches_fullOnly(_, _, _, _, _)
insertBatches_fullOnly(d, documents, i, out, calls) ==
    IF i + batchSize - 1 > Len(documents) THEN [docs |-> d, threw |-> FALSE, calls |-> calls]
    ELSE LET batch == SubSeq(documents, i, i + batchSize - 1)
             b == ((i - 1) \div batchSize) + 1
         IN  IF out.throwAt = b
             THEN [docs |-> d, threw |-> TRUE,
                   calls |-> Append(calls, [b |-> b, batch |-> batch])]
             ELSE insertBatches_fullOnly(uploadDocuments(d, batch, out.rejected),
                                         documents, i + batchSize, out,
                                         Append(calls, [b |-> b, batch |-> batch]))

\* the batch loop of insert; `out.throwAt` is the batch whose upload throws
\* (0: none), `out.rejected` the ids the service reports as not succeeded.
\* A reported failure is logged and the loop goes on.
RECURSIVE insertBatches(_, _, _, _, _)
insertBatches(d, documents, i, out, calls) ==
    IF i > Len(documents) THEN [docs |-> d, threw |-> FALSE, calls |-> calls]
    ELSE LET batch == SubSeq(documents, i, Min(i + batchSize - 1, Len(documents)))
             b == ((i - 1) \div batchSize) + 1
         IN  IF out.throwAt = b
             THEN [docs |-> d, threw |-> TRUE,
                   calls |-> Append(calls, [b |-> b, batch |-> batch])]
             ELSE insertBatches(uploadDocuments(d, batch, out.rejected),
                                documents, i + batchSize, out,
                                Append(calls, [b |-> b, batch |-> batch]))

\* insert(collectionName, documents) on the documents d of the index
insert(d, documents, out) ==
    IF Len(documents) = 0
    THEN [docs |-> d, threw |-> FALSE, calls |-> <<>>]
    ELSE insertBatches(d, documents, 1, out, <<>>)

\* delete(collectionName, ids): one deleteDocuments call; only the number
\* of succeeded keys is logged
delete(d, ids, out) ==
    IF Len(ids) = 0
    THEN [docs |-> d, threw |-> FALSE, calls |-> <<>>]
    ELSE IF out.throws
         THEN [docs |-> d, threw |-> TRUE, calls |-> <<[b |-> 1, batch |-> ids]>>]
         ELSE [docs |-> Del(d, Range(ids) \ out.rejected), threw |-> FALSE,
               calls |-> <<[b |-> 1, batch |-> ids]>>]

\* variant: the cached client is dropped before deleteIndex is awaited
dropCollection_clientFirst(idx, clients, indexName, fails) ==
    IF fails
    THEN [indexes |-> idx, clients |-> clients \ {indexName}, threw |-> TRUE]
    ELSE [indexes |-> idx \ {indexName}, clients |-> clients \ {indexName}, threw |-> FALSE]

\* variant: a failed deleteIndex is logged and not rethrown
dropCollection_swallow(idx, clients, indexName, fails) ==
    IF fails
    THEN [indexes |-> idx, clients |-> clients, threw |-> FALSE]
    ELSE [indexes |-> idx \ {indexName}, clients |-> clients \ {indexName}, threw |-> FALSE]

\* dropCollection on the set of existing indexes and the client cache
dropCollection(idx, clients, indexName, fails) ==
    IF fails
    THEN [indexes |-> idx, clients |-> clients, threw |-> TRUE]
    ELSE [indexes |-> idx \ {indexName}, clients |-> clients \ {indexName}, threw |-> FALSE]

\* listCollections: the names of the indexes of the service
listCollections(idx, fails) ==
    IF fails THEN [value |-> {}, threw |-> TRUE]
    ELSE [value |-> idx, threw |-> FALSE]

\* checkCollectionLimit: whether fewer than MAX_COLLECTIONS indexes are
\* listed; false when listing them fails
checkCollectionLimit(idx, fails) ==
    LET indexes == listCollections(idx, fails)
    IN  IF indexes.threw THEN [value |-> FALSE, threw |-> FALSE]
        ELSE [value |-> Cardinality(indexes.value) < MAX_COLLECTIONS, threw |-> FALSE]

\* hasCollection: getIndex; a 404 is "false", any other error is rethrown
hasCollection(idx, indexName, fails) ==
    IF fails THEN [value |-> FALSE, threw |-> TRUE]
    ELSE [value |-> indexName \in idx, threw |-> FALSE]

\* what the service returns for a query with `top`: the first hits
StoreReply(ranking, top) == SubSeq(ranking, 1, Min(top, Len(ranking)))

\* search: `topK = options?.topK || 10`, then every hit with a document is
\* kept unless a truthy threshold is above its score
search(ranking, options, fails) ==
    LET topK == IF options.hasTopK /\ options.topK # 0 THEN options.topK ELSE DefaultTopK
        kept(hit) ==
            /\ hit.doc
            /\ ~(options.hasThreshold /\ options.threshold # 0
                    /\ hit.score < options.threshold)
    IN  IF fails THEN [threw |-> TRUE, value |-> <<>>]
        ELSE [threw |-> FALSE,
              value |-> LET hits == SelectSeq(StoreReply(ranking, topK), kept)
                        IN  [i \in DOMAIN hits |-> [id |-> hits[i].id, score |-> hits[i].score]]]

\* results.sort((a, b) => b.score - a.score): stable, highest score first
insertByScore(sorted, x) ==
    LET n == Cardinality({i \in DOMAIN sorted : sorted[i].score >= x.score})
    IN  SubSeq(sorted, 1, n) \o <<x>> \o SubSeq(sorted, n + 1, Len(sorted))

RECURSIVE sortByScoreDesc(_)
sortByScoreDesc(results) ==
    IF results = <<>> THEN <<>>
    ELSE insertByScore(sortByScoreDesc(SubSeq(results, 1, Len(results) - 1)),
                       results[Len(results)])

DenseMissing == "Hybrid search requires at least a dense vector request"

\* hybridSearch: `limit = options?.limit || 10`; without a request on the
\* field 'vector' it throws before the service is called; otherwise the
\* hits with a document are collected up to limit, sorted when a rerank
\* option is given, and sliced to limit
hybridSearch(searchRequests, ranking, options, fails) ==
    LET limit == IF options.hasLimit /\ options.limit # 0 THEN options.limit
                 ELSE DefaultLimit
        hasDense == \E i \in DOMAIN searchRequests :
                        searchRequests[i].anns_field = "vector"
        withDoc(hit) == hit.doc
        hits == SelectSeq(StoreReply(ranking, limit), withDoc)
        pushed == SubSeq(hits, 1, Min(limit, Len(hits)))
        results == [i \in DOMAIN pushed |->
                        [id |-> pushed[i].id, score |-> pushed[i].score]]
        ranked == IF options.rerank THEN sortByScoreDesc(results) ELSE results
    IN  IF ~hasDense
        THEN [threw |-> TRUE, message |-> DenseMissing, searched |-> FALSE,
              value |-> <<>>]
        ELSE IF fails
        THEN [threw |-> TRUE, message |-> "search failed", searched |-> TRUE,
              value |-> <<>>]
        ELSE [threw |-> FALSE, message |-> "", searched |-> TRUE,
              value |-> substring(ranked, 0, limit)]

\* String.prototype.includes
includes(s, sub) ==
    \E i \in 0..(Len(s) - Len(sub)) : SubSeq(s, i + 1, i + Len(sub)) = sub

\* the message constant imported from ./types; its text is not used here
COLLECTION_LIMIT_MESSAGE == <<"COLLECTION_LIMIT_MESSAGE">>

\* new Error(COLLECTION_LIMIT_MESSAGE)
CollectionLimitError ==
    [statusCode |-> 0, hasMessage |-> TRUE, message |-> COLLECTION_LIMIT_MESSAGE]

\* variant: only the status code is looked at
mapCreateError_statusOnly(error) ==
    IF error.statusCode = 403 THEN CollectionLimitError ELSE error

\* the catch block of createCollection / createHybridCollection: what is
\* thrown for the error of createIndex
mapCreateError(error) ==
    IF \/ error.statusCode = 403
       \/ error.hasMessage /\ includes(error.message, <<"q", "u", "o", "t", "a">>)
       \/ error.hasMessage /\ includes(error.message, <<"l", "i", "m", "i", "t">>)
    THEN CollectionLimitError
    ELSE error

\* variant: createIndex is not awaited and its failure is lost
createCollection_unchecked(idx, indexName, fails) ==
    IF fails THEN [indexes |-> idx, threw |-> FALSE]
    ELSE [indexes |-> idx \cup {indexName}, threw |-> FALSE]

\* createCollection / createHybridCollection: createIndex
createCollection(idx, indexName, fails) ==
    IF fails THEN [indexes |-> idx, threw |-> TRUE]
    ELSE [indexes |-> idx \cup {indexName}, threw |-> FALSE]

(* ------------------------------- Context ------------------------------- *)

\* envManager.get('HYBRID_MODE') of a variable that is not set
Undefined == <<"undefined">>

\* getIsHybrid: true unless HYBRID_MODE is set to something other than
\* "true" in any letter case
getIsHybrid(hybridEnv) ==
    IF hybridEnv = Undefined THEN TRUE
    ELSE toLowerCase(hybridEnv) = <<"t", "r", "u", "e">>

\* path.resolve: a codebase path is a parent directory, a base name and a
\* spelling (with or without a trailing separator); resolving drops the
\* spelling
resolve(codebasePath) == [parent |-> codebasePath.parent, base |-> codebasePath.base]

\* path.basename of a resolved path (empty for the filesystem root)
basename(resolved) == resolved.base

ParentDirs == <<"x", "y">>

\* base names: the root, short names, a name of separators only, and names
\* long enough for the collection name to be cut
BaseNames ==
    << <<>>, <<"a", "b">>, <<"A", "_", "b">>, <<"_", "_", "_">>,
       Repeat("a", 119), Repeat("a", 126) \o <<"-", "b">> >>

HexDigits == Digits \o <<"a", "b", "c", "d", "e", "f">>

\* crypto.createHash('md5').update(p).digest('hex'): 32 hex digits, a
\* different digest for every resolved path
Md5(resolved) ==
    [k \in 1..32 |-> IF k = 1 THEN HexDigits[IndexOf(ParentDirs, resolved.parent)]
                     ELSE IF k = 2 THEN HexDigits[IndexOf(BaseNames, resolved.base)]
                     ELSE "0"]

\* hash.substring(0, 8)
ShortHashLength == 8

\* `collectionName.length > 128`
AzureNameLimit == 128

\* `collectionName.substring(0, 127)`
AzureNameCut == 127

\* Context.getCollectionName under a backend type and a HYBRID_MODE setting
getCollectionName(codebasePath, vectorDbType, hybridEnv) ==
    LET isHybrid == getIsHybrid(hybridEnv)
        normalizedPath == resolve(codebasePath)
        hash == Md5(normalizedPath)
        baseName == basename(normalizedPath)
    IN  IF vectorDbType = "azure"
        THEN LET azureSafeName ==
                     trimDashes(collapseDashes(replaceInvalid(toLowerCase(baseName))))
                 suffix == IF isHybrid THEN <<"-", "h", "y", "b", "r", "i", "d">> ELSE <<>>
                 shortHash == substring(hash, 0, ShortHashLength)
                 collectionName == azureSafeName \o suffix \o <<"-">> \o shortHash
             IN  IF Len(collectionName) > AzureNameLimit
                 THEN trimTrailingDash(substring(collectionName, 0, AzureNameCut))
                 ELSE collectionName
        ELSE LET prefix == <<"c", "l", "a", "u", "d", "e", "_",
                             "c", "o", "n", "t", "e", "x", "t">>
                 suffix == IF isHybrid THEN <<"_", "h", "y", "b", "r", "i", "d">> ELSE <<>>
             IN  prefix \o <<"_">> \o hash \o suffix

\* Context.prepareCollection: create the index unless it exists
prepareCollection(idx, indexName, hasFails, createFails) ==
    LET has == hasCollection(idx, indexName, hasFails)
    IN  IF has.threw THEN [indexes |-> idx, threw |-> TRUE]
        ELSE IF has.value THEN [indexes |-> idx, threw |-> FALSE]
        ELSE createCollection(idx, indexName, createFails)

(* ----------------------------- Diff Engine ----------------------------- *)

EmptyPlan == [added |-> {}, modified |-> {}, removed |-> {}]

\* variant: the byte size is not compared
FpEqual_hashOnly(f, g) == f.hash = g.hash

\* two fingerprints are equal iff hash and size match
FpEqual(f, g) == f.hash = g.hash /\ f.size = g.size

\* first pass: every scanned path is added, modified or left out
RECURSIVE DiffScanned(_, _, _, _)
DiffScanned(prior, scan, i, acc) ==
    IF i > Len(PathOrder) THEN acc
    ELSE LET p == PathOrder[i]
         IN  IF p \notin DOMAIN scan THEN DiffScanned(prior, scan, i + 1, acc)
             ELSE IF p \notin DOMAIN prior
                  THEN DiffScanned(prior, scan, i + 1, [acc EXCEPT !.added = @ \cup {p}])
             ELSE IF ~FpEqual(prior[p], scan[p])
                  THEN DiffScanned(prior, scan, i + 1, [acc EXCEPT !.modified = @ \cup {p}])
             ELSE DiffScanned(prior, scan, i + 1, acc)

\* second pass: every snapshot path the scan did not see is removed
RECURSIVE DiffPrior(_, _, _, _)
DiffPrior(prior, scan, i, acc) ==
    IF i > Len(PathOrder) THEN acc
    ELSE LET p == PathOrder[i]
         IN  IF p \in DOMAIN prior /\ p \notin DOMAIN scan
             THEN DiffPrior(prior, scan, i + 1, [acc EXCEPT !.removed = @ \cup {p}])
             ELSE DiffPrior(prior, scan, i + 1, acc)

\* variant: every path the Snapshot knows is taken as modified
Diff_allKnownModified(prior, scan) ==
    [added |-> DOMAIN scan \ DOMAIN prior,
     modified |-> DOMAIN scan \cap DOMAIN prior,
     removed |-> DOMAIN prior \ DOMAIN scan]

Diff(prior, scan) == DiffPrior(prior, scan, 1, DiffScanned(prior, scan, 1, EmptyPlan))

PlanPaths(pl) == pl.added \cup pl.modified \cup pl.removed

ClassOf(pl, p) ==
    IF p \in pl.removed THEN "removed"
    ELSE IF p \in pl.modified THEN "modified"
    ELSE "added"

\* the fingerprint map of a Snapshot
PriorOf(s) == [p \in DOMAIN s |-> s[p].fp]


(* ------------------------------- state --------------------------------- *)

VARIABLES
    fs,             \* path -> [content, mtime] of the files on disk
    indexes,        \* names of the indexes the search service holds
    docs,           \* chunk id -> content, the documents of BoundIndex
    searchClients,  \* index names with a cached SearchClient
    snap,           \* Snapshot: path -> [fp, ids]
    snapExists,     \* whether the Snapshot of the codebase exists
    lockHolder,     \* the run holding the per-identity lock, 0 when free
    phase,          \* run -> state of the orchestrator's state machine
    scanned,        \* run -> fingerprint map of the run's last scan
    plan,           \* run -> SyncPlan
    todo,           \* run -> paths of the plan not yet processed
    done,           \* run -> paths reconciled and committed
    failed,         \* run -> paths recorded as per-file failures
    events,         \* number of environment events so far
    ops,            \* run -> number of store requests the run has issued
    last,           \* what the step just taken did (reset by every other step)
    hist,           \* how the latest run ended, while no edit followed it
    basis,          \* run -> hist at the run's latest scan
    dPrior,         \* Diff Engine input: prior fingerprint map
    dScan,          \* Diff Engine input: fresh scan
    dPlan,          \* Diff Engine output
    dDone           \* the Diff Engine has run on (dPrior, dScan)

VARIABLES
    nName,          \* normalizeIndexName input: a collection name
    nIndex,         \* normalizeIndexName output
    nDone           \* normalizeIndexName has run on nName

VARIABLES
    cnPath1,        \* getCollectionName input: a codebase path
    cnPath2,        \* getCollectionName input: another codebase path
    cnType,         \* the backend type (vectorDbType)
    cnEnv,          \* the HYBRID_MODE setting
    cnName1,        \* getCollectionName(cnPath1)
    cnName2,        \* getCollectionName(cnPath2)
    cnDone          \* getCollectionName has run on both paths

VARIABLES
    inDocs0,        \* insert: the documents of the index before the call
    inDocuments,    \* insert: the documents argument
    inOut,          \* insert: what the service does during the call
    inResult,       \* insert: outcome of the call
    inOut2,         \* what the service does when the call is repeated
    inResult2,      \* outcome of the repeated call
    inStage         \* 0: not called, 1: called, 2: called again

VARIABLES
    stColl,         \* index name -> (document id -> content), the search service
    stClients,      \* index names with a cached SearchClient
    stLive,         \* collection name -> whether it was created and not dropped since
    stLast          \* the adapter call just made

VARIABLES
    seRanking,      \* the hits of the index for the query, in the service's order
    seOptions,      \* the options argument of search
    seFails,        \* whether the service call fails
    seResult,       \* what search returned
    seDone          \* whether search was called

syncVars == <<fs, indexes, docs, searchClients, snap, snapExists, lockHolder,
              phase, scanned, plan, todo, done, failed, events, ops, last, hist, basis>>

diffVars == <<dPrior, dScan, dPlan, dDone>>

normVars == <<nName, nIndex, nDone>>

nameVars == <<cnPath1, cnPath2, cnType, cnEnv, cnName1, cnName2, cnDone>>

insertVars == <<inDocs0, inDocuments, inOut, inResult, inOut2, inResult2, inStage>>

storeVars == <<stColl, stClients, stLive, stLast>>

searchVars == <<seRanking, seOptions, seFails, seResult, seDone>>

VARIABLES
    hyRequests,     \* the searchRequests argument of hybridSearch
    hyRanking,      \* the hits of the index, in the service's order
    hyOptions,      \* the options argument of hybridSearch
    hyFails,        \* whether the service call fails
    hyResult,       \* what hybridSearch returned
    hyDone          \* whether hybridSearch was called

hybridVars == <<hyRequests, hyRanking, hyOptions, hyFails, hyResult, hyDone>>

VARIABLES
    liIndexes,      \* the indexes of the service
    liListFails,    \* whether listing the indexes fails
    liCheck,        \* what checkCollectionLimit returned
    liCreate,       \* how the following createCollection ended
    liStage         \* 0: nothing called, 1: checked, 2: created

limitVars == <<liIndexes, liListFails, liCheck, liCreate, liStage>>

auxVars == <<configBatchSize, normVars, nameVars, insertVars, storeVars, searchVars, hybridVars, limitVars>>

vars == <<fs, indexes, docs, searchClients, snap, snapExists, lockHolder,
          phase, scanned, plan, todo, done, failed, events, ops, last, hist, basis, dPrior, dScan, dPlan, dDone,
          configBatchSize, nName, nIndex, nDone,
          cnPath1, cnPath2, cnType, cnEnv, cnName1, cnName2, cnDone,
          inDocs0, inDocuments, inOut, inResult, inOut2, inResult2, inStage,
          stColl, stClients, stLive, stLast,
          seRanking, seOptions, seFails, seResult, seDone,
          hyRequests, hyRanking, hyOptions, hyFails, hyResult, hyDone,
          liIndexes, liListFails, liCheck, liCreate, liStage>>

Executing == {"Scanning", "Diffing", "Reconciling"}

NoHist == [kind |-> "none", pend |-> {}]

NoLast == [op |-> "none", run |-> 0, path |-> "", cls |-> "", before |-> EmptyMap,
           oldIds |-> <<>>, newIds |-> <<>>, body |-> 0, committed |-> FALSE,
           opFailed |-> FALSE, storeThrew |-> FALSE, attempts |-> 0,
           todoBefore |-> {}, result |-> ""]

\* the request numbers of a list of store calls
CallNumbers(calls) == [i \in DOMAIN calls |-> calls[i].b]

Occurrences(s, x) == Cardinality({i \in DOMAIN s : s[i] = x})

(* ------------------------ Reconciliation Pipeline ---------------------- *)

\* what the collaborators may do during one file's pipeline
DelOutcomes(oldIds) ==
    {[throws |-> TRUE, rejected |-> {}]}
        \cup {[throws |-> FALSE, rejected |-> s] : s \in SUBSET Range(oldIds)}

InsOutcomes(newIds) ==
    {[throwAt |-> b, rejected |-> {}] : b \in 1..Len(newIds)}
        \cup {[throwAt |-> 0, rejected |-> s] : s \in SUBSET Range(newIds)}

\* steps 1-4 of the pipeline for path p of run r; `env` is what the store,
\* the chunker and the embedder do
reconcileFile(r, p, env) ==
    LET cls == ClassOf(plan[r], p)
        oldIds == IF cls \in {"modified", "removed"} /\ p \in DOMAIN snap
                  THEN snap[p].ids ELSE <<>>
        del == delete(docs, oldIds, env.del)
        readable == p \in DOMAIN fs
        body == IF readable THEN fs[p].content ELSE 0
        newIds == IF readable THEN ChunkIdsOf(p, body) ELSE <<>>
        documents == [i \in DOMAIN newIds |-> [id |-> newIds[i], content |-> body]]
        ins == insert(del.docs, documents, env.ins)
        clientsDel == IF Len(oldIds) > 0 THEN getSearchClient(searchClients, BoundIndex)
                      ELSE searchClients
        clientsIns == IF Len(newIds) > 0 THEN getSearchClient(clientsDel, BoundIndex)
                      ELSE clientsDel
        delSilent == env.del.rejected \cap Range(oldIds) # {}
        insSilent == env.ins.rejected \cap Range(newIds) # {}
        info == [NoLast EXCEPT !.op = "reconcile", !.run = r, !.path = p, !.cls = cls,
                               !.before = Restrict(snap, {p}), !.oldIds = oldIds,
                               !.todoBefore = todo[r]]
    IN  IF del.threw
        THEN [docs |-> del.docs, snap |-> snap, clients |-> clientsDel, ok |-> FALSE,
              calls |-> Len(del.calls),
              last |-> [info EXCEPT !.opFailed = TRUE, !.storeThrew = TRUE,
                                    !.attempts = Occurrences(CallNumbers(del.calls), 1)]]
        ELSE IF cls = "removed"
        THEN [docs |-> del.docs, snap |-> Del(snap, {p}), clients |-> clientsDel,
              ok |-> TRUE, calls |-> Len(del.calls),
              last |-> [info EXCEPT !.committed = TRUE, !.opFailed = delSilent]]
        ELSE IF ~readable \/ env.stage # "ok"
        THEN [docs |-> del.docs, snap |-> snap, clients |-> clientsDel, ok |-> FALSE,
              calls |-> Len(del.calls),
              last |-> [info EXCEPT !.opFailed = TRUE]]
        ELSE IF ins.threw
        THEN [docs |-> ins.docs, snap |-> snap, clients |-> clientsIns, ok |-> FALSE,
              calls |-> Len(del.calls) + Len(ins.calls),
              last |-> [info EXCEPT !.opFailed = TRUE, !.storeThrew = TRUE,
                                    !.newIds = newIds, !.body = body,
                                    !.attempts = Occurrences(CallNumbers(ins.calls), env.ins.throwAt)]]
        ELSE [docs |-> ins.docs,
              snap |-> Put(snap, p, [fp |-> scanned[r][p], ids |-> newIds]),
              clients |-> clientsIns, ok |-> TRUE,
              calls |-> Len(del.calls) + Len(ins.calls),
              last |-> [info EXCEPT !.committed = TRUE, !.newIds = newIds, !.body = body,
                                    !.opFailed = delSilent \/ insSilent]]

DelFaulty(d) == d.throws \/ d.rejected # {}

InsFaulty(i) == i.throwAt # 0 \/ i.rejected # {}

\* the number of failures in env
EnvCost(env) ==
    (IF DelFaulty(env.del) THEN 1 ELSE 0) + (IF env.stage # "ok" THEN 1 ELSE 0)
        + (IF InsFaulty(env.ins) THEN 1 ELSE 0)

\* the environments of one pipeline; a failure is listed only where the
\* pipeline gets to the call that fails
ReconcileEnvs(r, p) ==
    LET cls == ClassOf(plan[r], p)
        oldIds == IF cls \in {"modified", "removed"} /\ p \in DOMAIN snap
                  THEN snap[p].ids ELSE <<>>
        reads == p \in DOMAIN fs /\ cls # "removed"
        newIds == IF reads THEN ChunkIdsOf(p, fs[p].content) ELSE <<>>
    IN  {env \in [del : DelOutcomes(oldIds),
                  stage : IF reads THEN {"ok", "chunk", "embed"} ELSE {"ok"},
                  ins : InsOutcomes(newIds)] :
            /\ env.del.throws => env.stage = "ok"
            /\ (env.del.throws \/ env.stage # "ok") => ~InsFaulty(env.ins)
            /\ events + EnvCost(env) <= MaxEvents}

(* ------------------------------- actions ------------------------------- *)

SyncInit ==
    /\ fs = [p \in Paths |-> [content |-> 1, mtime |-> 0]]
    /\ indexes = {}
    /\ docs = EmptyMap
    /\ searchClients = {}
    /\ snap = EmptyMap
    /\ snapExists = FALSE
    /\ lockHolder = 0
    /\ events = 0
    /\ phase = [r \in RunIds |-> "Idle"]
    /\ scanned = [r \in RunIds |-> EmptyMap]
    /\ plan = [r \in RunIds |-> EmptyPlan]
    /\ todo = [r \in RunIds |-> {}]
    /\ done = [r \in RunIds |-> {}]
    /\ failed = [r \in RunIds |-> {}]
    /\ ops = [r \in RunIds |-> 0]
    /\ last = NoLast
    /\ hist = NoHist
    /\ basis = [r \in RunIds |-> NoHist]

\* the Diff Engine is not exercised
DiffIdle ==
    /\ dPrior = EmptyMap
    /\ dScan = EmptyMap
    /\ dPlan = EmptyPlan
    /\ dDone = FALSE

\* normalizeIndexName is not exercised
NormIdle ==
    /\ nName = <<>>
    /\ nIndex = <<>>
    /\ nDone = FALSE

\* getCollectionName is not exercised
NamesIdle ==
    /\ cnPath1 = [parent |-> "x", base |-> <<>>, slash |-> FALSE]
    /\ cnPath2 = [parent |-> "x", base |-> <<>>, slash |-> FALSE]
    /\ cnType = "azure"
    /\ cnEnv = Undefined
    /\ cnName1 = <<>>
    /\ cnName2 = <<>>
    /\ cnDone = FALSE

\* collection names as callers give them; the first two normalize to the
\* same index name
CollNames == {<<"a", "_", "b">>, <<"a", "-", "b">>, <<"c">>}

\* no error: the value of the error fields of a call that returned
NoError == [statusCode |-> 0, hasMessage |-> FALSE, message |-> <<>>]

NoStLast == [op |-> "none", name |-> <<>>, threw |-> FALSE, value |-> FALSE,
             names |-> {}, before |-> EmptyMap, clientsBefore |-> {},
             raised |-> NoError, error |-> NoError]

\* the adapter is not exercised on its own
StoreIdle ==
    /\ stColl = EmptyMap
    /\ stClients = {}
    /\ stLive = [c \in CollNames |-> "no"]
    /\ stLast = NoStLast

NoCheck == [value |-> FALSE, threw |-> FALSE]

NoCreate == [threw |-> FALSE, error |-> NoError]

\* checkCollectionLimit is not exercised on its own
LimitIdle ==
    /\ liIndexes = {}
    /\ liListFails = FALSE
    /\ liCheck = NoCheck
    /\ liCreate = NoCreate
    /\ liStage = 0

NoOptions == [hasTopK |-> FALSE, topK |-> 0, hasThreshold |-> FALSE, threshold |-> 0]

NoHybridOptions == [hasLimit |-> FALSE, limit |-> 0, rerank |-> FALSE]

NoHybridResult == [threw |-> FALSE, message |-> "", searched |-> FALSE, value |-> <<>>]

\* hybridSearch is not exercised on its own
HybridIdle ==
    /\ hyRequests = <<>>
    /\ hyRanking = <<>>
    /\ hyOptions = NoHybridOptions
    /\ hyFails = FALSE
    /\ hyResult = NoHybridResult
    /\ hyDone = FALSE

\* search is not exercised on its own
SearchIdle ==
    /\ seRanking = <<>>
    /\ seOptions = NoOptions
    /\ seFails = FALSE
    /\ seResult = [threw |-> FALSE, value |-> <<>>]
    /\ seDone = FALSE

NoOutcome == [throwAt |-> 0, rejected |-> {}]

NoResult == [docs |-> EmptyMap, threw |-> FALSE, calls |-> <<>>]

\* insert is not exercised on its own
InsertIdle ==
    /\ inDocs0 = EmptyMap
    /\ inDocuments = <<>>
    /\ inOut = NoOutcome
    /\ inResult = NoResult
    /\ inOut2 = NoOutcome
    /\ inResult2 = NoResult
    /\ inStage = 0

Init ==
    /\ SyncInit
    /\ configBatchSize = ConfigBatchSize
    /\ DiffIdle
    /\ NormIdle
    /\ NamesIdle
    /\ InsertIdle
    /\ StoreIdle
    /\ SearchIdle
    /\ HybridIdle
    /\ LimitIdle

\* variant: the lock is granted to every request
tryLock_always(holder, r) == r

\* the per-identity lock: granted only when no run holds it
tryLock(holder, r) == IF holder = 0 THEN r ELSE holder

\* a file is created, rewritten or removed on disk, between runs (a change
\* made while a run works is seen by the next scan)
Edit(p) ==
    /\ events < MaxEvents
    /\ lockHolder = 0
    /\ \/ \E c \in Contents :
            /\ IF p \in DOMAIN fs THEN fs[p].content # c ELSE TRUE
            /\ fs' = Put(fs, p, [content |-> c, mtime |-> 1])
       \/ /\ p \in DOMAIN fs
          /\ fs' = Del(fs, {p})
    /\ events' = events + 1
    /\ hist' = NoHist
    /\ last' = NoLast
    /\ UNCHANGED <<indexes, docs, searchClients, snap, snapExists, lockHolder, phase,
                   scanned, plan, todo, done, failed, ops, basis>>
    /\ UNCHANGED diffVars
    /\ UNCHANGED auxVars

\* startSync(codebaseRoot): take the lock, prepare the collection, create the
\* Snapshot if the codebase was never indexed
StartSync(r) ==
    /\ phase[r] = "Idle"
    /\ \A q \in RunIds : q < r => phase[q] # "Idle"
    /\ tryLock(lockHolder, r) = r
    /\ \E hasFails, createFails \in BOOLEAN :
         LET prep == prepareCollection(indexes, BoundIndex, hasFails, createFails)
         IN  /\ ~prep.threw
             /\ indexes' = prep.indexes
    /\ lockHolder' = r
    /\ snapExists' = TRUE
    /\ phase' = [phase EXCEPT ![r] = "Scanning"]
    /\ last' = NoLast
    /\ UNCHANGED <<fs, docs, searchClients, snap, scanned, plan, todo, done,
                   failed, ops, hist, basis>>
    /\ UNCHANGED events
    /\ UNCHANGED diffVars
    /\ UNCHANGED auxVars

\* a request for the identity while a run holds the lock is rejected
RejectSync(r) ==
    /\ phase[r] \in {"Idle", "Interrupted"}
    /\ phase[r] = "Idle" => \A q \in RunIds : q < r => phase[q] # "Idle"
    /\ tryLock(lockHolder, r) # r
    /\ last' = [NoLast EXCEPT !.op = "reject", !.run = r]
    /\ UNCHANGED <<fs, indexes, docs, searchClients, snap, snapExists, lockHolder,
                   phase, scanned, plan, todo, done, failed, ops, hist, basis>>
    /\ UNCHANGED events
    /\ UNCHANGED diffVars
    /\ UNCHANGED auxVars

Scan(r) ==
    /\ phase[r] = "Scanning"
    /\ scanned' = [scanned EXCEPT ![r] = ScanFs(fs)]
    /\ phase' = [phase EXCEPT ![r] = "Diffing"]
    /\ basis' = [basis EXCEPT ![r] = hist]
    /\ hist' = NoHist
    /\ last' = NoLast
    /\ UNCHANGED <<fs, indexes, docs, searchClients, snap, snapExists, lockHolder,
                   plan, todo, done, failed, ops>>
    /\ UNCHANGED events
    /\ UNCHANGED diffVars
    /\ UNCHANGED auxVars

DiffStep(r) ==
    /\ phase[r] = "Diffing"
    /\ plan' = [plan EXCEPT ![r] = Diff(PriorOf(snap), scanned[r])]
    /\ todo' = [todo EXCEPT ![r] = PlanPaths(plan'[r])]
    /\ phase' = [phase EXCEPT ![r] = "Reconciling"]
    /\ last' = NoLast
    /\ UNCHANGED <<fs, indexes, docs, searchClients, snap, snapExists, lockHolder,
                   scanned, done, failed, ops, hist, basis>>
    /\ UNCHANGED events
    /\ UNCHANGED diffVars
    /\ UNCHANGED auxVars

ReconcileFile(r, p) ==
    /\ phase[r] = "Reconciling"
    /\ p \in todo[r]
    /\ \E env \in ReconcileEnvs(r, p) :
         LET out == reconcileFile(r, p, env)
         IN  /\ docs' = out.docs
             /\ snap' = out.snap
             /\ searchClients' = out.clients
             /\ done' = [done EXCEPT ![r] = IF out.ok THEN @ \cup {p} ELSE @]
             /\ failed' = [failed EXCEPT ![r] = IF out.ok THEN @ ELSE @ \cup {p}]
             /\ ops' = [ops EXCEPT ![r] = @ + out.calls]
             /\ events' = events + EnvCost(env)
             /\ last' = out.last
    /\ todo' = [todo EXCEPT ![r] = @ \ {p}]
    /\ UNCHANGED <<fs, indexes, snapExists, lockHolder, phase, scanned, plan, hist, basis>>
    /\ UNCHANGED diffVars
    /\ UNCHANGED auxVars

Complete(r) ==
    /\ phase[r] = "Reconciling"
    /\ todo[r] = {}
    /\ phase' = [phase EXCEPT ![r] = "Completed"]
    /\ lockHolder' = IF lockHolder = r THEN 0 ELSE lockHolder
    /\ hist' = [kind |-> IF failed[r] = {} THEN "clean" ELSE "failed",
                     pend |-> failed[r]]
    /\ scanned' = [scanned EXCEPT ![r] = EmptyMap]
    /\ plan' = [plan EXCEPT ![r] = EmptyPlan]
    /\ done' = [done EXCEPT ![r] = {}]
    /\ ops' = [ops EXCEPT ![r] = 0]
    /\ basis' = [basis EXCEPT ![r] = NoHist]
    /\ last' = NoLast
    /\ UNCHANGED <<fs, indexes, docs, searchClients, snap, snapExists, todo,
                   failed>>
    /\ UNCHANGED events
    /\ UNCHANGED diffVars
    /\ UNCHANGED auxVars

\* cancellation between files, or a crash
Interrupt(r) ==
    /\ phase[r] = "Reconciling"
    /\ events < MaxEvents
    /\ events' = events + 1
    /\ phase' = [phase EXCEPT ![r] = "Interrupted"]
    /\ lockHolder' = IF lockHolder = r THEN 0 ELSE lockHolder
    /\ hist' = [kind |-> "interrupted", pend |-> todo[r] \cup failed[r]]
    /\ scanned' = [scanned EXCEPT ![r] = EmptyMap]
    /\ plan' = [plan EXCEPT ![r] = EmptyPlan]
    /\ todo' = [todo EXCEPT ![r] = {}]
    /\ done' = [done EXCEPT ![r] = {}]
    /\ failed' = [failed EXCEPT ![r] = {}]
    /\ ops' = [ops EXCEPT ![r] = 0]
    /\ basis' = [basis EXCEPT ![r] = NoHist]
    /\ last' = NoLast
    /\ UNCHANGED <<fs, indexes, docs, searchClients, snap, snapExists>>
    /\ UNCHANGED diffVars
    /\ UNCHANGED auxVars

\* variant: a resumed run goes on with the plan it had
resumePlan_persisted(r) == plan[r]

\* variant: a resumed run ignores the Snapshot and starts over
resumePlan_fromScratch(r) == Diff(EmptyMap, ScanFs(fs))

\* the plan a resumed run works on: a fresh scan diffed against the Snapshot
resumePlan(r) == Diff(PriorOf(snap), ScanFs(fs))

Resume(r) ==
    /\ phase[r] = "Interrupted"
    /\ tryLock(lockHolder, r) = r
    /\ \E hasFails, createFails \in BOOLEAN :
         LET prep == prepareCollection(indexes, BoundIndex, hasFails, createFails)
         IN  /\ ~prep.threw
             /\ indexes' = prep.indexes
    /\ lockHolder' = r
    /\ snapExists' = TRUE
    /\ scanned' = [scanned EXCEPT ![r] = ScanFs(fs)]
    /\ plan' = [plan EXCEPT ![r] = resumePlan(r)]
    /\ todo' = [todo EXCEPT ![r] = PlanPaths(plan'[r])]
    /\ phase' = [phase EXCEPT ![r] = "Reconciling"]
    /\ basis' = [basis EXCEPT ![r] = hist]
    /\ hist' = NoHist
    /\ last' = NoLast
    /\ UNCHANGED <<fs, docs, searchClients, snap, done, failed, ops>>
    /\ UNCHANGED events
    /\ UNCHANGED diffVars
    /\ UNCHANGED auxVars

\* clearIndex(codebaseRoot): the collection and the Snapshot go together
clearIndex(idx, clients, hasSnap, dropFails, snapFails) ==
    LET drop == dropCollection(idx, clients, BoundIndex, dropFails)
    IN  IF snapFails
        THEN [indexes |-> idx, clients |-> clients, snapExists |-> hasSnap,
              cleared |-> FALSE, result |-> "snapshotFailed"]
        ELSE IF drop.threw
        THEN [indexes |-> idx, clients |-> clients, snapExists |-> hasSnap,
              cleared |-> FALSE, result |-> "dropFailed"]
        ELSE [indexes |-> drop.indexes, clients |-> drop.clients, snapExists |-> FALSE,
              cleared |-> TRUE, result |-> "cleared"]

ClearIndex ==
    /\ lockHolder = 0
    /\ \E dropFails, snapFails \in BOOLEAN :
         LET out == clearIndex(indexes, searchClients, snapExists, dropFails, snapFails)
         IN  /\ indexes' = out.indexes
             /\ searchClients' = out.clients
             /\ snapExists' = out.snapExists
             /\ snap' = IF out.cleared THEN EmptyMap ELSE snap
             /\ docs' = IF out.cleared THEN EmptyMap ELSE docs
             /\ hist' = IF out.cleared THEN NoHist ELSE hist
             /\ last' = [NoLast EXCEPT !.op = "clear", !.result = out.result]
    /\ UNCHANGED <<fs, lockHolder, phase, scanned, plan, todo, done, failed, ops, basis>>
    /\ UNCHANGED events
    /\ UNCHANGED diffVars
    /\ UNCHANGED auxVars

Next ==
    \/ \E p \in Paths : Edit(p)
    \/ \E r \in RunIds : StartSync(r)
    \/ \E r \in RunIds : RejectSync(r)
    \/ \E r \in RunIds : Scan(r)
    \/ \E r \in RunIds : DiffStep(r)
    \/ \E r \in RunIds, p \in Paths : ReconcileFile(r, p)
    \/ \E r \in RunIds : Complete(r)
    \/ \E r \in RunIds : Interrupt(r)
    \/ \E r \in RunIds : Resume(r)
    \/ ClearIndex

Spec == Init /\ [][Next]_vars

(* ----------------- the Diff Engine as a pure function ------------------ *)

DiffPaths == {"a", "b"}

DiffFps == [hash : {1, 2}, size : {10, 20}, mtime : {0, 1}]

\* every fingerprint map over DiffPaths
FpMaps == UNION {[S -> DiffFps] : S \in SUBSET DiffPaths}

InitDiff ==
    /\ SyncInit
    /\ configBatchSize = ConfigBatchSize
    /\ NormIdle
    /\ NamesIdle
    /\ InsertIdle
    /\ StoreIdle
    /\ SearchIdle
    /\ HybridIdle
    /\ LimitIdle
    /\ dPrior \in FpMaps
    /\ dScan \in FpMaps
    /\ dPlan = EmptyPlan
    /\ dDone = FALSE

ApplyDiff ==
    /\ ~dDone
    /\ dPlan' = Diff(dPrior, dScan)
    /\ dDone' = TRUE
    /\ UNCHANGED <<dPrior, dScan>>
    /\ UNCHANGED syncVars
    /\ UNCHANGED auxVars

NextDiff == ApplyDiff

SpecDiff == InitDiff /\ [][NextDiff]_vars

(* --------------- normalizeIndexName as a pure function ----------------- *)

\* longest tail of a collection name
MaxTailLen == 3

NameChars == {"a", "B", "-", "_"}

NameTails == UNION {[1..n -> NameChars] : n \in 0..MaxTailLen}

\* collection names: a run of letters, empty or reaching up to the length
\* limit, followed by a tail
NameInputs ==
    {Repeat("a", k) \o t :
        k \in {0, MaxIndexNameLength - 2, MaxIndexNameLength - 1}, t \in NameTails}

InitNormalize ==
    /\ SyncInit
    /\ configBatchSize = ConfigBatchSize
    /\ DiffIdle
    /\ NamesIdle
    /\ InsertIdle
    /\ StoreIdle
    /\ SearchIdle
    /\ HybridIdle
    /\ LimitIdle
    /\ nName \in NameInputs
    /\ nIndex = <<>>
    /\ nDone = FALSE

ApplyNormalize ==
    /\ ~nDone
    /\ nIndex' = normalizeIndexName(nName)
    /\ nDone' = TRUE
    /\ UNCHANGED nName
    /\ UNCHANGED <<syncVars, diffVars, configBatchSize, nameVars, insertVars, storeVars, searchVars, hybridVars, limitVars>>

NextNormalize == ApplyNormalize

SpecNormalize == InitNormalize /\ [][NextNormalize]_vars

(* ---------------- getCollectionName as a pure function ---------------- *)

CodebasePaths ==
    [parent : Range(ParentDirs), base : Range(BaseNames), slash : BOOLEAN]

HybridEnvs == {Undefined, <<"t", "r", "u", "e">>, <<"T", "r", "u", "e">>,
               <<"f", "a", "l", "s", "e">>}

InitNames ==
    /\ SyncInit
    /\ configBatchSize = ConfigBatchSize
    /\ DiffIdle
    /\ NormIdle
    /\ cnPath1 \in CodebasePaths
    /\ cnPath2 \in CodebasePaths
    /\ cnType \in {"azure", "milvus"}
    /\ cnEnv \in HybridEnvs
    /\ cnName1 = <<>>
    /\ cnName2 = <<>>
    /\ cnDone = FALSE
    /\ InsertIdle
    /\ StoreIdle
    /\ SearchIdle
    /\ HybridIdle
    /\ LimitIdle

ApplyNames ==
    /\ ~cnDone
    /\ cnName1' = getCollectionName(cnPath1, cnType, cnEnv)
    /\ cnName2' = getCollectionName(cnPath2, cnType, cnEnv)
    /\ cnDone' = TRUE
    /\ UNCHANGED <<cnPath1, cnPath2, cnType, cnEnv>>
    /\ UNCHANGED <<syncVars, diffVars, configBatchSize, normVars, insertVars, storeVars, searchVars, hybridVars, limitVars>>

NextNames == ApplyNames

SpecNames == InitNames /\ [][NextNames]_vars

(* ----------------------- insert on one collection --------------------- *)

\* longest documents argument
MaxDocs == 3

StoreDocs == {[id |-> "x", content |-> 1], [id |-> "x", content |-> 2],
              [id |-> "y", content |-> 1]}

DocLists == UNION {[1..n -> StoreDocs] : n \in 0..MaxDocs}

\* the possible contents of an index
DocMaps ==
    UNION {[S -> {1, 2}] : S \in SUBSET {"x", "y"}}

IdsOf(documents) == [i \in DOMAIN documents |-> documents[i].id]

InitInsert ==
    /\ SyncInit
    /\ configBatchSize \in 0..(ConfigBatchSize + 1)
    /\ DiffIdle
    /\ NormIdle
    /\ NamesIdle
    /\ inDocs0 \in {d \in DocMaps : "y" \in DOMAIN d => d["y"] = 1}
    /\ inDocuments \in DocLists
    /\ inOut \in InsOutcomes(IdsOf(inDocuments))
    /\ inResult = NoResult
    /\ inOut2 = NoOutcome
    /\ inResult2 = NoResult
    /\ inStage = 0
    /\ StoreIdle
    /\ SearchIdle
    /\ HybridIdle
    /\ LimitIdle

\* insert(collectionName, documents) on an existing index
ApplyInsert ==
    /\ inStage = 0
    /\ inResult' = insert(inDocs0, inDocuments, inOut)
    /\ inStage' = 1
    /\ UNCHANGED <<inDocs0, inDocuments, inOut, inOut2, inResult2>>
    /\ UNCHANGED <<syncVars, diffVars, configBatchSize, normVars, nameVars, storeVars, searchVars, hybridVars, limitVars>>

\* the same call once more, after it returned
RepeatInsert ==
    /\ inStage = 1
    /\ ~inResult.threw
    /\ \E out2 \in InsOutcomes(IdsOf(inDocuments)) :
         /\ inOut2' = out2
         /\ inResult2' = insert(inResult.docs, inDocuments, out2)
    /\ inStage' = 2
    /\ UNCHANGED <<inDocs0, inDocuments, inOut, inResult>>
    /\ UNCHANGED <<syncVars, diffVars, configBatchSize, normVars, nameVars, storeVars, searchVars, hybridVars, limitVars>>

NextInsert == ApplyInsert \/ RepeatInsert

SpecInsert == InitInsert /\ [][NextInsert]_vars

(* ------------------ the adapter on several collections ---------------- *)

\* calls with at most one document, of id "x"
StDocLists ==
    {documents \in DocLists :
        Len(documents) <= 1 /\ \A i \in DOMAIN documents : documents[i].id = "x"}

StIdLists == {<<>>, <<"x">>}

\* the index name every call derives from its collection name
IndexNameOf == [c \in CollNames |-> normalizeIndexName(c)]

\* errors createIndex may be rejected with: a status code (0 when the
\* error has none) and possibly a message
CreateErrors ==
    {[statusCode |-> 403, hasMessage |-> FALSE, message |-> <<>>],
     [statusCode |-> 403, hasMessage |-> TRUE, message |-> <<"c", "o", "n", "f", "l", "i", "c", "t">>],
     [statusCode |-> 0, hasMessage |-> TRUE, message |-> <<"a", " ", "q", "u", "o", "t", "a">>],
     [statusCode |-> 500, hasMessage |-> TRUE, message |-> <<"u", "n", "l", "i", "m", "i", "t", "e", "d">>],
     [statusCode |-> 0, hasMessage |-> TRUE, message |-> <<"L", "i", "m", "i", "t">>],
     [statusCode |-> 409, hasMessage |-> TRUE, message |-> <<"c", "o", "n", "f", "l", "i", "c", "t">>],
     [statusCode |-> 500, hasMessage |-> FALSE, message |-> <<>>]}

\* stLive after dropCollection(c) was called: c is no longer live, and a
\* live name that shares c's index name has met a drop under another name
liveAfterDrop(live, c) ==
    [n \in CollNames |->
        IF n = c THEN "no"
        ELSE IF live[n] # "no" /\ IndexNameOf[n] = IndexNameOf[c]
        THEN "collided"
        ELSE live[n]]

InitStore ==
    /\ SyncInit
    /\ configBatchSize = ConfigBatchSize
    /\ DiffIdle
    /\ NormIdle
    /\ NamesIdle
    /\ InsertIdle
    /\ stColl = EmptyMap
    /\ stClients = {}
    /\ stLive = [c \in CollNames |-> "no"]
    /\ stLast = NoStLast
    /\ SearchIdle
    /\ HybridIdle
    /\ LimitIdle

\* createCollection / createHybridCollection(collectionName, dimension);
\* the service refuses to create an index whose name is in use
StCreate(c, hybrid) ==
    LET indexName == IndexNameOf[c]
    IN  /\ \E fails \in BOOLEAN, raised \in CreateErrors \cup {NoError} :
             /\ indexName \in DOMAIN stColl => fails
             /\ fails <=> raised # NoError
             /\ LET out == createCollection(DOMAIN stColl, indexName, fails)
                IN  /\ stColl' = [n \in out.indexes |->
                                     IF n \in DOMAIN stColl THEN stColl[n] ELSE EmptyMap]
                    /\ stLive' = IF out.threw THEN stLive
                                  ELSE [stLive EXCEPT ![c] = "live"]
                    /\ stLast' = [NoStLast EXCEPT
                                     !.op = IF hybrid THEN "createHybridCollection"
                                            ELSE "createCollection",
                                     !.name = c, !.threw = out.threw,
                                     !.before = stColl, !.clientsBefore = stClients,
                                     !.raised = raised,
                                     !.error = IF out.threw THEN mapCreateError(raised)
                                               ELSE NoError]
        /\ UNCHANGED stClients
        /\ UNCHANGED <<syncVars, diffVars, configBatchSize, normVars, nameVars, insertVars, searchVars, hybridVars, limitVars>>

\* dropCollection(collectionName)
StDrop(c) ==
    LET indexName == IndexNameOf[c]
    IN  /\ \E fails \in BOOLEAN :
             LET out == dropCollection(DOMAIN stColl, stClients, indexName, fails)
             IN  /\ stColl' = Restrict(stColl, out.indexes)
                 /\ stClients' = out.clients
                 /\ stLast' = [NoStLast EXCEPT !.op = "dropCollection", !.name = c,
                                               !.threw = out.threw, !.before = stColl,
                                               !.clientsBefore = stClients]
        /\ stLive' = liveAfterDrop(stLive, c)
        /\ UNCHANGED <<syncVars, diffVars, configBatchSize, normVars, nameVars, insertVars, searchVars, hybridVars, limitVars>>

\* hasCollection(collectionName)
StHas(c) ==
    LET indexName == IndexNameOf[c]
    IN  /\ \E fails \in BOOLEAN :
             LET out == hasCollection(DOMAIN stColl, indexName, fails)
             IN  stLast' = [NoStLast EXCEPT !.op = "hasCollection", !.name = c,
                                           !.threw = out.threw, !.value = out.value,
                                           !.before = stColl, !.clientsBefore = stClients]
        /\ UNCHANGED <<stColl, stClients, stLive>>
        /\ UNCHANGED <<syncVars, diffVars, configBatchSize, normVars, nameVars, insertVars, searchVars, hybridVars, limitVars>>

\* listCollections()
StList ==
    /\ \E fails \in BOOLEAN :
         LET out == listCollections(DOMAIN stColl, fails)
         IN  stLast' = [NoStLast EXCEPT !.op = "listCollections", !.threw = out.threw,
                                       !.names = out.value, !.before = stColl,
                                       !.clientsBefore = stClients]
    /\ UNCHANGED <<stColl, stClients, stLive>>
    /\ UNCHANGED <<syncVars, diffVars, configBatchSize, normVars, nameVars, insertVars, searchVars, hybridVars, limitVars>>

\* insert(collectionName, documents); an upload to an index that does not
\* exist is refused by the service
StInsert(c, documents) ==
    LET indexName == IndexNameOf[c]
        exists == indexName \in DOMAIN stColl
        d == IF exists THEN stColl[indexName] ELSE EmptyMap
    IN  /\ \E out \in InsOutcomes(IdsOf(documents)) :
             /\ (~exists /\ Len(documents) > 0) => out.throwAt = 1
             /\ LET res == insert(d, documents, out)
                IN  /\ stColl' = IF exists THEN [stColl EXCEPT ![indexName] = res.docs]
                                  ELSE stColl
                    /\ stLast' = [NoStLast EXCEPT !.op = "insert", !.name = c,
                                                  !.threw = res.threw, !.before = stColl,
                                                  !.clientsBefore = stClients]
        /\ stClients' = IF Len(documents) = 0 THEN stClients
                         ELSE getSearchClient(stClients, indexName)
        /\ UNCHANGED stLive
        /\ UNCHANGED <<syncVars, diffVars, configBatchSize, normVars, nameVars, insertVars, searchVars, hybridVars, limitVars>>

\* delete(collectionName, ids)
StDelete(c, ids) ==
    LET indexName == IndexNameOf[c]
        exists == indexName \in DOMAIN stColl
        d == IF exists THEN stColl[indexName] ELSE EmptyMap
    IN  /\ \E out \in DelOutcomes(ids) :
             /\ (~exists /\ Len(ids) > 0) => out.throws
             /\ LET res == delete(d, ids, out)
                IN  /\ stColl' = IF exists THEN [stColl EXCEPT ![indexName] = res.docs]
                                  ELSE stColl
                    /\ stLast' = [NoStLast EXCEPT !.op = "delete", !.name = c,
                                                  !.threw = res.threw, !.before = stColl,
                                                  !.clientsBefore = stClients]
        /\ stClients' = IF Len(ids) = 0 THEN stClients
                         ELSE getSearchClient(stClients, indexName)
        /\ UNCHANGED stLive
        /\ UNCHANGED <<syncVars, diffVars, configBatchSize, normVars, nameVars, insertVars, searchVars, hybridVars, limitVars>>

NextStore ==
    \/ \E c \in CollNames, hybrid \in BOOLEAN : StCreate(c, hybrid)
    \/ \E c \in CollNames : StDrop(c)
    \/ \E c \in CollNames : StHas(c)
    \/ StList
    \/ \E c \in CollNames, documents \in StDocLists : StInsert(c, documents)
    \/ \E c \in CollNames, ids \in StIdLists : StDelete(c, ids)

SpecStore == InitStore /\ [][NextStore]_vars

(* -------------------------------- search ------------------------------- *)

MaxHits == 2

Scores == 0..2

\* hit lists of the service: every short list, and one longer than the
\* default topK
Rankings ==
    {[i \in DOMAIN f |-> [id |-> i, score |-> f[i][1], doc |-> f[i][2]]] :
        f \in UNION {[1..n -> Scores \X BOOLEAN] : n \in 0..MaxHits}}
    \cup {[i \in 1..(DefaultTopK + 1) |-> [id |-> i, score |-> 1, doc |-> TRUE]]}

SearchOptions ==
    {[hasTopK |-> FALSE, topK |-> 0, hasThreshold |-> ht, threshold |-> t] :
        ht \in BOOLEAN, t \in Scores}
    \cup {[hasTopK |-> TRUE, topK |-> k, hasThreshold |-> ht, threshold |-> t] :
            k \in 0..MaxHits, ht \in BOOLEAN, t \in Scores}

InitSearch ==
    /\ SyncInit
    /\ configBatchSize = ConfigBatchSize
    /\ DiffIdle
    /\ NormIdle
    /\ NamesIdle
    /\ InsertIdle
    /\ StoreIdle
    /\ seRanking \in Rankings
    /\ seOptions \in {o \in SearchOptions : o.hasThreshold \/ o.threshold = 0}
    /\ seFails \in BOOLEAN
    /\ seResult = [threw |-> FALSE, value |-> <<>>]
    /\ seDone = FALSE
    /\ HybridIdle
    /\ LimitIdle

\* search(collectionName, queryVector, options)
ApplySearch ==
    /\ ~seDone
    /\ seResult' = search(seRanking, seOptions, seFails)
    /\ seDone' = TRUE
    /\ UNCHANGED <<seRanking, seOptions, seFails>>
    /\ UNCHANGED <<syncVars, diffVars, configBatchSize, normVars, nameVars, insertVars, storeVars, hybridVars, limitVars>>

NextSearch == ApplySearch

SpecSearch == InitSearch /\ [][NextSearch]_vars

(* ----------------------------- hybridSearch ---------------------------- *)

\* a dense request and a text request, as the callers build them
HybridRequestKinds ==
    {[anns_field |-> "vector", data |-> "array"],
     [anns_field |-> "sparse_vector", data |-> "string"]}

HybridRequests == UNION {[1..n -> HybridRequestKinds] : n \in 0..2}

HybridOptions ==
    {[hasLimit |-> FALSE, limit |-> 0, rerank |-> r] : r \in BOOLEAN}
    \cup {[hasLimit |-> TRUE, limit |-> k, rerank |-> r] :
            k \in 0..MaxHits, r \in BOOLEAN}

InitHybrid ==
    /\ SyncInit
    /\ configBatchSize = ConfigBatchSize
    /\ DiffIdle
    /\ NormIdle
    /\ NamesIdle
    /\ InsertIdle
    /\ StoreIdle
    /\ SearchIdle
    /\ hyRequests \in HybridRequests
    /\ hyRanking \in Rankings
    /\ hyOptions \in HybridOptions
    /\ hyFails \in BOOLEAN
    /\ hyResult = NoHybridResult
    /\ hyDone = FALSE
    /\ LimitIdle

\* hybridSearch(collectionName, searchRequests, options)
ApplyHybrid ==
    /\ ~hyDone
    /\ hyResult' = hybridSearch(hyRequests, hyRanking, hyOptions, hyFails)
    /\ hyDone' = TRUE
    /\ UNCHANGED <<hyRequests, hyRanking, hyOptions, hyFails>>
    /\ UNCHANGED <<syncVars, diffVars, configBatchSize, normVars, nameVars, insertVars, storeVars, searchVars, limitVars>>

NextHybrid == ApplyHybrid

SpecHybrid == InitHybrid /\ [][NextHybrid]_vars

(* ------------------------- checkCollectionLimit ------------------------ *)

MaxOver == 1

\* services holding 0 to MAX_COLLECTIONS + MaxOver indexes
IndexSets == {1..n : n \in 0..(MAX_COLLECTIONS + MaxOver)}

InitLimit ==
    /\ SyncInit
    /\ configBatchSize = ConfigBatchSize
    /\ DiffIdle
    /\ NormIdle
    /\ NamesIdle
    /\ InsertIdle
    /\ StoreIdle
    /\ SearchIdle
    /\ HybridIdle
    /\ liIndexes \in IndexSets
    /\ liListFails \in BOOLEAN
    /\ liCheck = NoCheck
    /\ liCreate = NoCreate
    /\ liStage = 0

\* checkCollectionLimit()
CheckLimit ==
    /\ liStage = 0
    /\ liCheck' = checkCollectionLimit(liIndexes, liListFails)
    /\ liStage' = 1
    /\ UNCHANGED <<liIndexes, liListFails, liCreate>>
    /\ UNCHANGED <<syncVars, diffVars, configBatchSize, normVars, nameVars, insertVars, storeVars, searchVars, hybridVars>>

\* createCollection of a new name right after the check; the service
\* accepts the index or rejects it with one of CreateErrors
CreateAfterCheck ==
    /\ liStage = 1
    /\ \E raised \in CreateErrors \cup {NoError} :
         LET out == createCollection(liIndexes, Cardinality(liIndexes) + 1,
                                     raised # NoError)
         IN  /\ liIndexes' = out.indexes
             /\ liCreate' = [threw |-> out.threw,
                             error |-> IF out.threw THEN mapCreateError(raised)
                                       ELSE NoError]
    /\ liStage' = 2
    /\ UNCHANGED <<liListFails, liCheck>>
    /\ UNCHANGED <<syncVars, diffVars, configBatchSize, normVars, nameVars, insertVars, storeVars, searchVars, hybridVars>>

NextLimit == CheckLimit \/ CreateAfterCheck

SpecLimit == InitLimit /\ [][NextLimit]_vars

(* ------------------------------ properties ----------------------------- *)

\* C1: at most one sync run is executing for the codebase at any time, the
\* executing run is the lock holder, every pipeline step is taken by the
\* lock holder (no step of another run interleaves), and a request made
\* while a run executes is rejected without becoming active
C1_OneActiveRun ==
    /\ Cardinality({r \in RunIds : phase[r] \in Executing}) <= 1
    /\ \A r \in RunIds : phase[r] \in Executing => lockHolder = r
    /\ last.op = "reconcile" => lockHolder = last.run
    /\ last.op = "reject" => /\ lockHolder \notin {0, last.run}
                             /\ phase[last.run] \notin Executing

\* a second request was rejected while the first run is reconciling
C1_Witness ==
    /\ last.op = "reject"
    /\ \E r \in RunIds : phase[r] = "Reconciling" /\ lockHolder = r /\ last.run # r

\* C2: when the delete, chunk, embed or upsert of one file fails, the run
\* goes on with the other files of the plan and the failing file's Snapshot
\* entry is exactly what it was before the step
C2_FailureIsolated ==
    (last.op = "reconcile" /\ last.opFailed) =>
        /\ Restrict(snap, {last.path}) = last.before
        /\ last.path \in failed[last.run]
        /\ phase[last.run] = "Reconciling"
        /\ todo[last.run] = last.todoBefore \ {last.path}

\* C3: after the pipeline committed a modified file, no document the file
\* owned before is left in the store (an old id is gone, or it is one of
\* the new ids and holds the new content), and every new id is present
\* with the new content
C3_OwnershipSwap ==
    (last.op = "reconcile" /\ last.cls = "modified" /\ last.committed) =>
        /\ \A id \in Range(last.oldIds) :
              id \in DOMAIN docs => id \in Range(last.newIds) /\ docs[id] = last.body
        /\ \A id \in Range(last.newIds) : id \in DOMAIN docs /\ docs[id] = last.body

C5_ResumeOnlyPending ==
    \A r \in RunIds :
        (phase[r] = "Reconciling" /\ basis[r].kind = "interrupted") =>
            /\ PlanPaths(plan[r]) = basis[r].pend
            /\ todo[r] \cup done[r] \cup failed[r] = basis[r].pend

\* two files were committed before the interruption and the re-run works on
\* the third
C5_Witness ==
    \E r \in RunIds :
        /\ phase[r] = "Reconciling"
        /\ basis[r].kind = "interrupted"
        /\ Cardinality(basis[r].pend) = 1
        /\ Cardinality(DOMAIN snap) = 2
        /\ todo[r] = basis[r].pend

\* C6: the Diff Engine puts a path in added iff only the scan has it, in
\* removed iff only the prior map has it, in modified iff both have it with
\* unequal hash or size, and leaves it out (unchanged) iff both have it with
\* equal hash and size; the classes are pairwise disjoint and cover every
\* known path
C6_DiffPartition ==
    dDone =>
        LET both == DOMAIN dPrior \cap DOMAIN dScan
            unchanged == (DOMAIN dPrior \cup DOMAIN dScan) \ PlanPaths(dPlan)
        IN  /\ dPlan.added = DOMAIN dScan \ DOMAIN dPrior
            /\ dPlan.removed = DOMAIN dPrior \ DOMAIN dScan
            /\ dPlan.modified = {p \in both : \/ dPrior[p].hash # dScan[p].hash
                                              \/ dPrior[p].size # dScan[p].size}
            /\ unchanged = {p \in both : /\ dPrior[p].hash = dScan[p].hash
                                         /\ dPrior[p].size = dScan[p].size}
            /\ dPlan.added \cap dPlan.modified = {}
            /\ dPlan.added \cap dPlan.removed = {}
            /\ dPlan.modified \cap dPlan.removed = {}

\* a file whose size alone differs is modified and a file whose timestamp
\* alone differs is unchanged
C6_Witness ==
    /\ dDone
    /\ DOMAIN dPrior = DiffPaths
    /\ DOMAIN dScan = DiffPaths
    /\ dPrior["a"].hash = dScan["a"].hash /\ dPrior["a"].size # dScan["a"].size
    /\ dPlan.modified = {"a"}
    /\ dPrior["b"].hash = dScan["b"].hash /\ dPrior["b"].size = dScan["b"].size
    /\ dPrior["b"].mtime # dScan["b"].mtime
    /\ "b" \notin PlanPaths(dPlan)

AllowedMoves ==
    {<<"Idle", "Scanning">>, <<"Scanning", "Diffing">>, <<"Diffing", "Reconciling">>,
     <<"Reconciling", "Completed">>, <<"Reconciling", "Interrupted">>,
     <<"Interrupted", "Reconciling">>}

\* C7: a run changes state only along Idle -> Scanning -> Diffing ->
\* Reconciling -> Completed, Reconciling -> Interrupted and Interrupted ->
\* Reconciling, and a run that resumes works on a fresh scan diffed against
\* the Snapshot
C7_StateMachine ==
    [][\A r \in RunIds :
          /\ phase'[r] # phase[r] => <<phase[r], phase'[r]>> \in AllowedMoves
          /\ (phase[r] = "Interrupted" /\ phase'[r] = "Reconciling") =>
                /\ scanned'[r] = ScanFs(fs')
                /\ plan'[r] = Diff(PriorOf(snap'), scanned'[r])
                /\ todo'[r] = PlanPaths(plan'[r])]_vars

\* the first run was interrupted, a file was edited, and the run resumed
\* with the edited file in its plan
C7_Witness ==
    /\ phase[1] = "Reconciling"
    /\ \A r \in RunIds : r # 1 => phase[r] = "Idle"
    /\ plan[1].modified # {}

C9_RemovedFileGone ==
    (last.op = "reconcile" /\ last.cls = "removed" /\ last.path \notin DOMAIN snap) =>
        \A id \in Range(last.oldIds) : id \notin DOMAIN docs

\* AzureAISearchConfig.maxRetries in effect (the adapter is constructed
\* without one)
maxRetries == DefaultMaxRetries

\* C10: a store operation that ended in failure had its failing request
\* attempted maxRetries times (or once more, counting the first attempt
\* apart from the retries)
C10_BoundedRetry ==
    (last.op = "reconcile" /\ last.storeThrew) =>
        last.attempts \in {maxRetries, maxRetries + 1}

\* the Azure AI Search rules for an index name: lowercase letters, digits
\* and dashes only, no two dashes in a row, no dash first or last, at most
\* 128 characters
ValidIndexName(s) ==
    /\ \A i \in DOMAIN s : s[i] \in Range(LowerLetters) \cup Range(Digits) \cup {"-"}
    /\ \A i \in DOMAIN s : i > 1 => ~(s[i] = "-" /\ s[i - 1] = "-")
    /\ Len(s) > 0 => s[1] # "-" /\ s[Len(s)] # "-"
    /\ Len(s) <= MaxIndexNameLength

\* C14: the index name normalizeIndexName produces for a collection name
\* is lowercase, holds only letters, digits and dashes, has no two dashes
\* in a row, neither starts nor ends with a dash and is at most 128
\* characters long
C14_NormalizedNameValid == nDone => ValidIndexName(nIndex)

\* C13: under one backend type and one hybrid mode, two codebase paths get
\* the same collection name exactly when they resolve to the same absolute
\* path
C13_NameIsIdentity ==
    cnDone => ((cnName1 = cnName2) <=> (resolve(cnPath1) = resolve(cnPath2)))

\* C19: with backend type 'azure' the collection name of every codebase
\* path is lowercase, holds only letters, digits and dashes, has no two
\* dashes in a row, neither starts nor ends with a dash and is at most 128
\* characters long
C19_AzureNameValid ==
    (cnDone /\ cnType = "azure") => ValidIndexName(cnName1)

\* the content the last document with this id in a documents argument has
LastContentOf(documents, id) ==
    LET at == {i \in DOMAIN documents : documents[i].id = id}
        lastAt == CHOOSE i \in at : \A j \in at : j <= i
    IN  documents[lastAt].content

\* C11: after an insert call that returned, every id of the call is in
\* the collection once, with the content of the last document of the call
\* that has the id, every other document is as before, and the same call
\* made again leaves the collection as it is
C11_UpsertIdempotent ==
    (inStage >= 1 /\ ~inResult.threw) =>
        /\ \A id \in Range(IdsOf(inDocuments)) :
              /\ id \in DOMAIN inResult.docs
              /\ inResult.docs[id] = LastContentOf(inDocuments, id)
        /\ \A id \in DOMAIN inResult.docs \ Range(IdsOf(inDocuments)) :
              id \in DOMAIN inDocs0 /\ inResult.docs[id] = inDocs0[id]
        /\ DOMAIN inDocs0 \subseteq DOMAIN inResult.docs
        /\ (inStage = 2 /\ ~inResult2.threw) => inResult2.docs = inResult.docs

\* C17: when insert returns without throwing, every document of the call
\* is stored in the collection
C17_InsertReportsFailure ==
    (inStage >= 1 /\ ~inResult.threw) =>
        \A i \in DOMAIN inDocuments :
            /\ inDocuments[i].id \in DOMAIN inResult.docs
            /\ \E j \in DOMAIN inDocuments :
                  /\ inDocuments[j].id = inDocuments[i].id
                  /\ inResult.docs[inDocuments[i].id] = inDocuments[j].content

\* the documents of a list of uploads, in order
RECURSIVE Concat(_)
Concat(calls) ==
    IF Len(calls) = 0 THEN <<>> ELSE Head(calls).batch \o Concat(Tail(calls))

\* C18: for n documents and batch size b (100 when batchSize is unset or
\* 0) insert issues uploads numbered 1, 2, ..., each of 1 to b documents,
\* whose concatenation is a prefix of the input list; when it returns there
\* are ceil(n/b) uploads and they cover the list, none for an empty list;
\* when upload k throws it was the last upload and the collection is what
\* uploads 1..k-1 left
C18_Batching ==
    (inStage >= 1) =>
        LET n == Len(inDocuments)
            b == IF configBatchSize = 0 THEN DefaultBatchSize ELSE configBatchSize
            calls == inResult.calls
            k == Len(calls)
        IN  /\ \A c \in DOMAIN calls :
                  calls[c].b = c /\ Len(calls[c].batch) \in 1..b
            /\ Concat(calls) = SubSeq(inDocuments, 1, Len(Concat(calls)))
            /\ \A c \in DOMAIN calls : c < k => Len(calls[c].batch) = b
            /\ ~inResult.threw => /\ k = (n + b - 1) \div b
                                  /\ Concat(calls) = inDocuments
            /\ n = 0 => k = 0 /\ ~inResult.threw
            /\ inResult.threw =>
                  /\ k = inOut.throwAt
                  /\ inResult.docs =
                        insert(inDocs0, SubSeq(inDocuments, 1, (k - 1) * b),
                               [throwAt |-> 0, rejected |-> inOut.rejected]).docs

\* three documents went out as a batch of two and a batch of one
C18_Witness ==
    /\ inStage = 1
    /\ ~inResult.threw
    /\ configBatchSize = 2
    /\ Len(inDocuments) = 3
    /\ Len(inResult.calls) = 2
    /\ Len(inResult.calls[2].batch) = 1

\* the documents of collection name c in service state st, <<"absent">> when
\* its index does not exist
CollectionOf(st, c) ==
    IF IndexNameOf[c] \in DOMAIN st THEN <<"present", st[IndexNameOf[c]]>>
    ELSE <<"absent">>

\* C12: insert, delete and dropCollection on collection c1 change neither
\* the existence nor the documents of any collection of another name c2
C12_CollectionsIsolated ==
    stLast.op \in {"insert", "delete", "dropCollection"} =>
        \A c2 \in CollNames \ {stLast.name} :
            CollectionOf(stColl, c2) = CollectionOf(stLast.before, c2)

\* C15 as stated: a listing contains every name n whose createCollection
\* succeeded and for which dropCollection(n) was not called since
C15_ListedAsStated ==
    (stLast.op = "listCollections" /\ ~stLast.threw) =>
        \A n \in CollNames : stLive[n] # "no" => n \in stLast.names

\* C15: a listing contains the index name normalizeIndexName(n) of every
\* name n whose createCollection succeeded, until dropCollection is called
\* with a name of the same index name
C15_ListedByIndexName ==
    (stLast.op = "listCollections" /\ ~stLast.threw) =>
        \A n \in CollNames : stLive[n] = "live" => IndexNameOf[n] \in stLast.names

C15_Witness ==
    /\ stLast.op = "listCollections"
    /\ ~stLast.threw
    /\ stLive[<<"a", "_", "b">>] = "live"
    /\ IndexNameOf[<<"a", "_", "b">>] \in stLast.names
    /\ <<"a", "_", "b">> \notin stLast.names

\* what hasCollection(c) answers in the current state when the service replies
HasNow(c) == hasCollection(DOMAIN stColl, IndexNameOf[c], FALSE).value

AskedTopK == IF seOptions.hasTopK THEN seOptions.topK ELSE DefaultTopK

\* whether a hit passes the threshold of the options
PassesThreshold(hit) == seOptions.hasThreshold => hit.score >= seOptions.threshold

\* C20: search returns at most topK results (10 when topK is not given);
\* with a threshold every result has a score of at least the threshold;
\* the results are the store's hits without those below the threshold, in
\* the store's order
C20_SearchBounded ==
    (seDone /\ ~seResult.threw) =>
        /\ Len(seResult.value) <= AskedTopK
        /\ \A i \in DOMAIN seResult.value : PassesThreshold(seResult.value[i])
        /\ \A i, j \in DOMAIN seResult.value :
                i < j => seResult.value[i].id < seResult.value[j].id
        /\ \A k \in DOMAIN StoreReply(seRanking, AskedTopK) :
                LET hit == StoreReply(seRanking, AskedTopK)[k]
                IN  (hit.doc /\ PassesThreshold(hit)) =>
                        \E i \in DOMAIN seResult.value : seResult.value[i].id = hit.id

\* the number of results the options of hybridSearch ask for, as the claim
\* reads them
AskedLimit == IF hyOptions.hasLimit THEN hyOptions.limit ELSE DefaultLimit

\* C21: without a request on the field 'vector' hybridSearch fails with
\* 'Hybrid search requires at least a dense vector request' and issues no
\* search; otherwise it returns at most limit results (10 when limit is not
\* given), in non-increasing score order when a rerank option is given
C21_HybridSearch ==
    hyDone =>
        IF \A i \in DOMAIN hyRequests : hyRequests[i].anns_field # "vector"
        THEN /\ hyResult.threw
             /\ hyResult.message = DenseMissing
             /\ ~hyResult.searched
        ELSE ~hyResult.threw =>
                /\ Len(hyResult.value) <= AskedLimit
                /\ hyOptions.rerank =>
                        \A i, j \in DOMAIN hyResult.value :
                            i < j => hyResult.value[i].score >= hyResult.value[j].score

\* the messages of CreateErrors that contain 'quota' or 'limit'
LimitMessages == {<<"a", " ", "q", "u", "o", "t", "a">>, <<"u", "n", "l", "i", "m", "i", "t", "e", "d">>}

\* C22: a failed createCollection / createHybridCollection throws an Error
\* carrying COLLECTION_LIMIT_MESSAGE when the error has status 403 or a
\* message containing 'quota' or 'limit', and the error itself otherwise;
\* in both cases the name has an index afterwards only if it had one before
C22_CreateErrorMapping ==
    (stLast.op \in {"createCollection", "createHybridCollection"} /\ stLast.threw) =>
        /\ IF \/ stLast.raised.statusCode = 403
              \/ stLast.raised.hasMessage /\ stLast.raised.message \in LimitMessages
           THEN stLast.error = CollectionLimitError
           ELSE stLast.error = stLast.raised
        /\ IndexNameOf[stLast.name] \in DOMAIN stColl
                => IndexNameOf[stLast.name] \in DOMAIN stLast.before

C22_Witness ==
    /\ stLast.op = "createHybridCollection"
    /\ stLast.threw
    /\ stLast.raised.statusCode = 500
    /\ stLast.raised.message = <<"u", "n", "l", "i", "m", "i", "t", "e", "d">>
    /\ stLast.error = CollectionLimitError
    /\ IndexNameOf[stLast.name] \notin DOMAIN stColl

\* C23: checkCollectionLimit returns true exactly when fewer than 50
\* indexes exist, and returns false without throwing when listing the
\* indexes fails; after it returned true, a createCollection that follows
\* with no other collection created in between does not fail with the
\* collection-limit error
C23_CheckLimit ==
    /\ liStage = 1 =>
            /\ ~liCheck.threw
            /\ liListFails => ~liCheck.value
            /\ ~liListFails => (liCheck.value <=> Cardinality(liIndexes) < 50)
    /\ (liStage = 2 /\ liCheck.value) =>
            ~(liCreate.threw /\ liCreate.error = CollectionLimitError)

====
